---- MODULE Spec2Model ----
(***************************************************************************)
(* Client layer over the hosted recommendation service: the transport      *)
(* wrapper send_with_retry, the entity helpers ensure_user and             *)
(* user_has_profile, the profile normalizer and the cold-start profile     *)
(* builder, in the two shells of the repository:                           *)
(*   "dash"  src/streamlit_app.py  (dashboard, sends through               *)
(*           send_with_retry)                                              *)
(*   "cli"   src/app.py            (terminal menu, sends with client.send) *)
(* One step of a session is one client.send together with the local code   *)
(* that runs until the next client.send or the end of the called function. *)
(***************************************************************************)
EXTENDS Integers, Sequences, FiniteSets, TLC

\* ------------------------------------------------------------------------
\* Bounds and program constants
\* ------------------------------------------------------------------------

\* largest value of the parameter `tries` a direct call of send_with_retry is given
MaxTries == 3

\* send_with_retry(req, tries: int = 3, ...)
DefaultTries == 3

\* send_with_retry(..., base_sleep: float = 0.35), in hundredths of a second
BaseSleep == 35

\* the cold start takes up to three books
MaxPicks == 3

\* star values are counted in halves: st.slider("Rating (1-5)", 1.0, 5.0, 5.0, 0.5)
StarUnit == 2

\* largest star value typed at the terminal, in halves
MaxTyped == 12

Sessions == {1, 2}

UserIds == {"u1"}

\* ------------------------------------------------------------------------
\* Python strings: sequences of characters, with str.strip and str.lower
\* ------------------------------------------------------------------------

UpperAlpha == <<"A","B","C","D","E","F","G","H","I","J","K","L","M",
                "N","O","P","Q","R","S","T","U","V","W","X","Y","Z">>

LowerAlpha == <<"a","b","c","d","e","f","g","h","i","j","k","l","m",
                "n","o","p","q","r","s","t","u","v","w","x","y","z">>

Whitespace == {" ", "\t", "\n"}

LowerChar(c) ==
  IF \E i \in 1..26 : UpperAlpha[i] = c
  THEN LowerAlpha[CHOOSE i \in 1..26 : UpperAlpha[i] = c]
  ELSE c

\* s.lower()
Lower(s) == [i \in 1..Len(s) |-> LowerChar(s[i])]

RECURSIVE LStrip(_)
LStrip(s) ==
  IF s # <<>> /\ Head(s) \in Whitespace THEN LStrip(Tail(s)) ELSE s

RECURSIVE RStrip(_)
RStrip(s) ==
  IF s # <<>> /\ s[Len(s)] \in Whitespace
  THEN RStrip(SubSeq(s, 1, Len(s) - 1))
  ELSE s

\* s.strip()
Strip(s) == RStrip(LStrip(s))

\* ------------------------------------------------------------------------
\* Python values as the remote service returns them: None, a string, an
\* integer or a list; every value is a record of the same shape.
\* ------------------------------------------------------------------------

None == [t |-> "none", s |-> <<>>, l |-> <<>>, n |-> 0]

Str(s) == [t |-> "str", s |-> s, l |-> <<>>, n |-> 0]

PyInt(n) == [t |-> "int", s |-> <<>>, l |-> <<>>, n |-> n]

List(l) == [t |-> "list", s |-> <<>>, l |-> l, n |-> 0]

\* a list of strings as a Python value
StrList(ss) == List([i \in 1..Len(ss) |-> Str(ss[i])])

\* the strings of a list of strings
Strings(v) == [i \in 1..Len(v.l) |-> v.l[i].s]

\* bool(v): None, "", 0 and [] are falsy
Truthy(v) ==
  CASE v.t = "none" -> FALSE
    [] v.t = "str"  -> v.s # <<>>
    [] v.t = "int"  -> v.n # 0
    [] OTHER        -> v.l # <<>>

IsList(v) == v.t = "list"

DigitChars == <<"0","1","2","3","4","5","6","7","8","9">>

\* str(n) of an integer n >= 0
RECURSIVE Digits(_)
Digits(n) ==
  IF n < 10 THEN <<DigitChars[n + 1]>>
  ELSE Digits(n \div 10) \o <<DigitChars[(n % 10) + 1]>>

\* repr(v), and the items of a list's repr
RECURSIVE PyRepr(_), ReprItems(_)
PyRepr(v) ==
  CASE v.t = "str"  -> <<"'">> \o v.s \o <<"'">>
    [] v.t = "none" -> <<"N","o","n","e">>
    [] v.t = "int"  -> Digits(v.n)
    [] OTHER        -> <<"[">> \o ReprItems(v.l) \o <<"]">>

ReprItems(l) ==
  IF l = <<>> THEN <<>>
  ELSE IF Len(l) = 1 THEN PyRepr(Head(l))
  ELSE PyRepr(Head(l)) \o <<",", " ">> \o ReprItems(Tail(l))

\* str(v)
PyStr(v) == IF v.t = "str" THEN v.s ELSE PyRepr(v)

\* ------------------------------------------------------------------------
\* Profile normalizer
\* ------------------------------------------------------------------------

\* add_one(v): append str(v).strip() unless it is empty
add_one(out, v) ==
  LET s == Strip(PyStr(v)) IN IF s # <<>> THEN Append(out, s) ELSE out

RECURSIVE add_all(_, _)
add_all(out, l) ==
  IF l = <<>> THEN out ELSE add_all(add_one(out, Head(l)), Tail(l))

RECURSIVE normalize_items(_, _)
normalize_items(out, l) ==
  IF l = <<>> THEN out
  ELSE normalize_items(
         IF IsList(Head(l)) THEN add_all(out, Head(l).l)
         ELSE add_one(out, Head(l)),
         Tail(l))

\* variant of normalize_list without the `if not x` test
normalize_list_unguarded(x) ==
  IF IsList(x) THEN normalize_items(<<>>, x.l) ELSE add_one(<<>>, x)

\* normalize_list(x): always a sequence of strings
normalize_list(x) ==
  IF ~Truthy(x) THEN <<>>
  ELSE IF IsList(x) THEN normalize_items(<<>>, x.l)
  ELSE add_one(<<>>, x)

\* variant of unique_ci that compares the strings as they are written
RECURSIVE unique_cased_from(_, _, _)
unique_cased_from(seen, res, seq) ==
  IF seq = <<>> THEN res
  ELSE IF Head(seq) \notin seen
       THEN unique_cased_from(seen \cup {Head(seq)}, Append(res, Head(seq)), Tail(seq))
       ELSE unique_cased_from(seen, res, Tail(seq))

unique_ci_cased(seq) == unique_cased_from({}, <<>>, seq)

RECURSIVE unique_ci_from(_, _, _)
unique_ci_from(seen, res, seq) ==
  IF seq = <<>> THEN res
  ELSE LET key == Lower(Head(seq)) IN
       IF key \notin seen
       THEN unique_ci_from(seen \cup {key}, Append(res, Head(seq)), Tail(seq))
       ELSE unique_ci_from(seen, res, Tail(seq))

\* unique_ci(seq): first occurrence of every value, compared lower-cased
unique_ci(seq) == unique_ci_from({}, <<>>, seq)

\* ------------------------------------------------------------------------
\* The remote service: requests, responses, errors
\* ------------------------------------------------------------------------

SciFi == <<"S","c","i","-","F","i">>

Drama == <<"D","r","a","m","a">>

ItemIds == {"A", "B", "C", "D", "E"}

\* the item catalog held by the remote service (filled by load_books.py, whose
\* genres are the pieces of str.split("|"), neither trimmed nor deduplicated)
Catalog ==
  [id \in ItemIds |->
     CASE id = "A" -> [author |-> Str(<<"X">>), genres |-> StrList(<<SciFi, Drama>>)]
       [] id = "B" -> [author |-> Str(<<"X">>), genres |-> StrList(<<Drama>>)]
       [] id = "C" -> [author |-> Str(<<"x", " ">>),
                       genres |-> StrList(<<Lower(Drama), <<" ">> >>)]
       [] id = "D" -> [author |-> None, genres |-> StrList(<< <<" ">> >>)]
       [] OTHER    -> [author |-> None, genres |-> None]]

\* what a query may find: nothing, or some books of the catalog
SearchResults == {<<>>, <<"C", "D", "E">>}

NoError == [cls |-> "none", status |-> 0, sig |-> FALSE]

\* ApiTimeout: "client did not get response within ... ms"
ApiTimeout == [cls |-> "ApiTimeout", status |-> 0, sig |-> TRUE]

\* ResponseException with e.status_code
ResponseException(code) == [cls |-> "ResponseException", status |-> code, sig |-> FALSE]

\* any other exception of client.send (connection refused, ...)
OtherException == [cls |-> "Exception", status |-> 0, sig |-> FALSE]

\* a rating is the fraction num / den
NoRating == [num |-> 0, den |-> 1]

NoReq == [kind |-> "none", user |-> "", item |-> "", cascade |-> FALSE,
          fav_genres |-> <<>>, fav_authors |-> <<>>, rating |-> NoRating]

AddUser(u) == [NoReq EXCEPT !.kind = "AddUser", !.user = u]

GetUserValues(u) == [NoReq EXCEPT !.kind = "GetUserValues", !.user = u]

GetItemValues(i) == [NoReq EXCEPT !.kind = "GetItemValues", !.item = i]

SetUserValues(u, g, a, c) ==
  [NoReq EXCEPT !.kind = "SetUserValues", !.user = u, !.cascade = c,
                !.fav_genres = g, !.fav_authors = a]

SearchItems(u, c) == [NoReq EXCEPT !.kind = "SearchItems", !.user = u, !.cascade = c]

AddDetailView(u, i) ==
  [NoReq EXCEPT !.kind = "AddDetailView", !.user = u, !.item = i, !.cascade = TRUE]

AddRating(u, i, r) ==
  [NoReq EXCEPT !.kind = "AddRating", !.user = u, !.item = i, !.rating = r,
                !.cascade = TRUE]

RecommendItemsToUser(u) == [NoReq EXCEPT !.kind = "RecommendItemsToUser", !.user = u]

RecommendItemsToItem(i, u) ==
  [NoReq EXCEPT !.kind = "RecommendItemsToItem", !.user = u, !.item = i]

\* a response: the fields the callers read with .get(), None when absent
NoResp == [author |-> None, genres |-> None, fav_genres |-> None,
           fav_authors |-> None, recomms |-> <<>>]

NoProfile == [fav_genres |-> None, fav_authors |-> None]

\* variant of Stored that adds the values sent to the values held
Stored_merged(pr, req) ==
  [pr EXCEPT ![req.user] =
     [fav_genres |-> List(@.fav_genres.l \o StrList(req.fav_genres).l),
      fav_authors |-> List(@.fav_authors.l \o StrList(req.fav_authors).l)]]

\* variant of Stored in which the service takes the genres of the request and
\* keeps the authors it holds
Stored_genres_only(pr, req) ==
  [pr EXCEPT ![req.user] =
     [fav_genres |-> StrList(req.fav_genres), fav_authors |-> @.fav_authors]]

\* the profiles held once SetUserValues(user_id, {"fav_genres": ..., "fav_authors":
\* ...}) is carried out: the two properties take the values sent
Stored(pr, req) ==
  [pr EXCEPT ![req.user] =
     [fav_genres |-> StrList(req.fav_genres),
      fav_authors |-> StrList(req.fav_authors)]]

\* the service's answers to `req` in the state (us, pr), each with the state it
\* leaves; `applied` says that the service carried the request out
Answers(req, us, pr) ==
  LET ok(resp, us2, pr2) ==
        [err |-> NoError, resp |-> resp, users |-> us2, profile |-> pr2,
         fault |-> FALSE, applied |-> TRUE]
      fail(code) ==
        [err |-> ResponseException(code), resp |-> NoResp, users |-> us,
         profile |-> pr, fault |-> FALSE, applied |-> FALSE]
  IN
  CASE req.kind = "AddUser" ->
         IF req.user \in us THEN {fail(409)}
         ELSE {ok(NoResp, us \cup {req.user}, pr)}
    [] req.kind = "GetUserValues" ->
         IF req.user \notin us THEN {fail(404)}
         ELSE {ok([NoResp EXCEPT !.fav_genres = pr[req.user].fav_genres,
                                 !.fav_authors = pr[req.user].fav_authors], us, pr)}
    [] req.kind = "SetUserValues" ->
         IF req.user \notin us /\ ~req.cascade THEN {fail(404)}
         ELSE {ok(NoResp, us \cup {req.user}, Stored(pr, req))}
    [] req.kind = "GetItemValues" ->
         IF req.item \notin ItemIds THEN {fail(404)}
         ELSE {ok([NoResp EXCEPT !.author = Catalog[req.item].author,
                                 !.genres = Catalog[req.item].genres], us, pr)}
    [] req.kind = "SearchItems" ->
         IF req.user \notin us /\ ~req.cascade THEN {fail(404)}
         ELSE {ok([NoResp EXCEPT !.recomms = r], us \cup {req.user}, pr) :
                 r \in SearchResults}
    [] req.kind \in {"RecommendItemsToUser", "RecommendItemsToItem"} ->
         IF req.user \notin us THEN {fail(404)}
         ELSE {ok([NoResp EXCEPT !.recomms = r], us, pr) : r \in SearchResults}
    [] OTHER -> \* AddDetailView, AddRating, cascade_create=True: the view or the
                \* rating is kept by the service and read by none of the functions
                \* modelled here
         {ok(NoResp, us \cup {req.user}, pr)}

\* every outcome of one client.send(req): an answer of the service, a timeout
\* (the request lost, or applied and its response lost), a server error, or
\* another exception of the client
Outcomes(req, us, pr) ==
  LET lost(e) ==
        [err |-> e, resp |-> NoResp, users |-> us, profile |-> pr,
         fault |-> TRUE, applied |-> FALSE]
  IN  Answers(req, us, pr)
      \cup {lost(ApiTimeout), lost(ResponseException(500)), lost(OtherException)}
      \cup {[a EXCEPT !.err = ApiTimeout, !.resp = NoResp, !.fault = TRUE] :
              a \in {b \in Answers(req, us, pr) : b.err = NoError}}

\* ------------------------------------------------------------------------
\* State
\* ------------------------------------------------------------------------

VARIABLES
  users,    \* remote: the user ids that exist
  profile,  \* remote: the stored fav_genres / fav_authors of every user id
  wrote,    \* history: some SetUserValues was carried out by the service
  active,   \* the sessions that run
  shell,    \* per session: "dash" (streamlit_app.py) or "cli" (app.py)
  call,     \* per session: the function being called, and how it ended
  rt,       \* per session: the transport's state for the request being sent
  acc,      \* per session: the cold-start builder's locals
  pure,     \* a function of the normalizer called on its own: argument, result
  main,     \* per session: where app.py's main() stands ("free": no main runs,
            \* the functions are called in any order)
  page      \* the dashboard page of session 1: st.session_state, the run of the
            \* script under way, the buttons as last rendered

vars == <<users, profile, wrote, active, shell, call, rt, acc, pure, main, page>>

\* a call: the function, its user id, how it ended (outcome, ret, exc), whether
\* it reported a failure to the user; and as history: whether a fault hit one
\* of its requests, the function called just before it when that call was for
\* the same user id and returned with no fault, the users that existed when
\* it began, the kinds of request it has sent, and for the builder the profiles
\* stored when it began; `first` is history of the session, not of the call: the
\* kind of the first request naming the user id that a run of main() or of the
\* dashboard script has sent
NoCall == [op |-> "none", status |-> "idle", uid |-> "", outcome |-> "none",
           ret |-> "None", exc |-> NoError, reported |-> FALSE, faulted |-> FALSE,
           follows |-> "none", followsRet |-> "None", users0 |-> {},
           sent |-> {}, profile0 |-> [u \in UserIds |-> NoProfile],
           first |-> "none"]

NoRt == [req |-> NoReq, tries |-> 0, i |-> 0, last |-> NoError, st |-> "idle",
         resp |-> NoResp, outs |-> <<>>, sleeps |-> <<>>, rx |-> 0]

NoAcc == [phase |-> "none", items |-> <<>>, idx |-> 0,
          fav_genres |-> <<>>, fav_authors |-> <<>>,
          set_genres |-> {}, set_authors |-> {},
          read |-> <<>>, failed |-> <<>>, recomms |-> <<>>, stars |-> 0]

\* a call of one of the normalizer's functions: its name, its argument, the
\* sequence of strings it returned, whether it raised instead
NoPure == [fn |-> "none", arg |-> None, res |-> <<>>, raised |-> FALSE]

\* the dashboard before its first run: st.session_state as initialised at
\* lines 271-277, nothing rendered, no run under way. `gesture` is the widget
\* that started the run under way, `shown` tells that the last run reached the
\* tabs, add_on / reset_on / save_on tell which buttons it rendered enabled;
\* picks0, results0 and ok are history: the two lists when the run began, and
\* how the builder called by the run ended
NoPage == [pc |-> "idle", gesture |-> "none", uid |-> "",
           picks |-> <<>>, results |-> <<>>, sel |-> "",
           shown |-> FALSE, add_on |-> FALSE, reset_on |-> FALSE, save_on |-> FALSE,
           picks0 |-> <<>>, results0 |-> <<>>, ok |-> "none"]

\* ------------------------------------------------------------------------
\* Transport
\* ------------------------------------------------------------------------

\* 2**i
RECURSIVE Pow2(_)
Pow2(i) == IF i = 0 THEN 1 ELSE 2 * Pow2(i - 1)

\* "ApiTimeout" in msg or "did not get response" in msg or "timed out" in msg
IsTransient(e) == e.sig

\* a request handed to the transport, before its first attempt
Begin(req, tries) == [NoRt EXCEPT !.req = req, !.tries = tries, !.st = "pending"]

\* what one attempt leaves in the transport's log
Logged(r, o) ==
  [r EXCEPT !.outs = Append(@, [err |-> o.err, resp |-> o.resp, fault |-> o.fault]),
            !.rx = @ + 1]

\* variant of send_with_retry that retries whatever the error is
send_with_retry_retries_all(r, o) ==
  IF o.err = NoError
  THEN [Logged(r, o) EXCEPT !.st = "returned", !.resp = o.resp]
  ELSE [Logged(r, o) EXCEPT
          !.last = o.err,
          !.sleeps = Append(@, BaseSleep * Pow2(r.i)),
          !.i = r.i + 1,
          !.st = IF r.i + 1 < r.tries THEN "pending" ELSE "raised"]

\* variant of send_with_retry that keeps the response and goes on with the loop
send_with_retry_no_return(r, o) ==
  IF o.err = NoError
  THEN [Logged(r, o) EXCEPT
          !.resp = o.resp,
          !.i = r.i + 1,
          !.st = IF r.i + 1 < r.tries THEN "pending" ELSE "returned"]
  ELSE IF IsTransient(o.err)
  THEN [Logged(r, o) EXCEPT
          !.last = o.err,
          !.sleeps = Append(@, BaseSleep * Pow2(r.i)),
          !.i = r.i + 1,
          !.st = IF r.i + 1 < r.tries THEN "pending" ELSE "raised"]
  ELSE [Logged(r, o) EXCEPT !.last = o.err, !.st = "raised"]

\* variant of send_with_retry whose loop runs once more than tries
send_with_retry_one_more(r, o) ==
  IF o.err = NoError
  THEN [Logged(r, o) EXCEPT !.st = "returned", !.resp = o.resp]
  ELSE IF IsTransient(o.err)
  THEN [Logged(r, o) EXCEPT
          !.last = o.err,
          !.sleeps = Append(@, BaseSleep * Pow2(r.i)),
          !.i = r.i + 1,
          !.st = IF r.i + 1 < r.tries + 1 THEN "pending" ELSE "raised"]
  ELSE [Logged(r, o) EXCEPT !.last = o.err, !.st = "raised"]

\* send_with_retry: the body of `for i in range(tries)` for the attempt whose
\* outcome is o, and the `raise last` after the loop
send_with_retry(r, o) ==
  IF o.err = NoError
  THEN [Logged(r, o) EXCEPT !.st = "returned", !.resp = o.resp]
  ELSE IF IsTransient(o.err)
  THEN [Logged(r, o) EXCEPT
          !.last = o.err,
          !.sleeps = Append(@, BaseSleep * Pow2(r.i)),
          !.i = r.i + 1,
          !.st = IF r.i + 1 < r.tries THEN "pending" ELSE "raised"]
  ELSE [Logged(r, o) EXCEPT !.last = o.err, !.st = "raised"]

\* app.py sends with client.send(req): one attempt
client_send(r, o) ==
  IF o.err = NoError
  THEN [Logged(r, o) EXCEPT !.st = "returned", !.resp = o.resp]
  ELSE [Logged(r, o) EXCEPT !.last = o.err, !.st = "raised"]

Transport(sh, r, o) == IF sh = "dash" THEN send_with_retry(r, o) ELSE client_send(r, o)

\* ------------------------------------------------------------------------
\* Entity existence helpers
\* ------------------------------------------------------------------------

Return(c, v) == [c EXCEPT !.status = "done", !.outcome = "return", !.ret = v]

Raise(c, e) == [c EXCEPT !.status = "done", !.outcome = "raise", !.exc = e]

Bool(b) == IF b THEN "True" ELSE "False"

\* variant of ensure_user that does not absorb the conflict
ensure_user_conflict_raises(c, r) ==
  IF r.st = "returned" THEN Return(c, "None")
  ELSE IF r.last.cls = "ResponseException" /\ r.last.status # 409
  THEN Return([c EXCEPT !.reported = TRUE], "None")
  ELSE Raise(c, r.last)

\* variant of ensure_user that warns about the conflict like about any status
ensure_user_reports_conflict(c, r) ==
  IF r.st = "returned" THEN Return(c, "None")
  ELSE IF r.last.cls = "ResponseException"
  THEN Return([c EXCEPT !.reported = TRUE], "None")
  ELSE Raise(c, r.last)

\* streamlit_app.py ensure_user, once send_with_retry(AddUser(user_id)) has ended
ensure_user(c, r) ==
  IF r.st = "returned" THEN Return(c, "None")
  ELSE IF r.last.cls = "ResponseException"
  THEN IF r.last.status = 409 THEN Return(c, "None")
       ELSE Return([c EXCEPT !.reported = TRUE], "None")
  ELSE Raise(c, r.last)

\* app.py ensure_user, once client.send(AddUser(user_id)) has ended
app_ensure_user(c, r) ==
  IF r.st = "returned" THEN Return(c, "None")
  ELSE IF r.last.cls = "ResponseException" THEN Return(c, "None")
  ELSE Raise(c, r.last)

\* variant of user_has_profile that takes every status code for an absent user
user_has_profile_any_status(c, r) ==
  IF r.st = "raised"
  THEN IF r.last.cls = "ResponseException"
       THEN Return(c, "False")
       ELSE Raise(c, r.last)
  ELSE Return(c, Bool(normalize_list(r.resp.fav_genres) # <<>>
                      \/ normalize_list(r.resp.fav_authors) # <<>>))

\* streamlit_app.py user_has_profile, once user_values(user_id) has ended
user_has_profile(c, r) ==
  IF r.st = "raised"
  THEN IF r.last.cls = "ResponseException" /\ r.last.status = 404
       THEN Return(c, "False")
       ELSE Raise(c, r.last)
  ELSE Return(c, Bool(normalize_list(r.resp.fav_genres) # <<>>
                      \/ normalize_list(r.resp.fav_authors) # <<>>))

\* app.py user_has_profile, once client.send(GetUserValues(user_id)) has ended
app_user_has_profile(c, r) ==
  IF r.st = "raised"
  THEN IF r.last.cls = "ResponseException" /\ r.last.status = 404
       THEN Return(c, "False")
       ELSE Raise(c, r.last)
  ELSE Return(c, Bool(Truthy(r.resp.fav_genres) \/ Truthy(r.resp.fav_authors)))

\* ------------------------------------------------------------------------
\* Cold-start profile builder
\* ------------------------------------------------------------------------

NonEmpty(s) == s # <<>>

\* [expr for g in l]
StrippedAll(l) == [i \in 1..Len(l) |-> Strip(PyStr(l[i]))]

\* streamlit_app.py, lines 197-204: what the values of one item add
Accumulate(a, values) ==
  LET author == values.author
      genres == IF Truthy(values.genres) THEN values.genres ELSE List(<<>>)
  IN  [a EXCEPT
         !.fav_authors = IF Truthy(author) THEN Append(@, Strip(PyStr(author))) ELSE @,
         !.fav_genres = IF IsList(genres)
                        THEN @ \o SelectSeq(StrippedAll(genres.l), NonEmpty)
                        ELSE @]

\* streamlit_app.py, lines 206-223: the two lists, cleaned and deduplicated
Cleaned(l) == unique_ci(normalize_list(StrList(SelectSeq(l, NonEmpty))))

\* variant of Finish that sends the write whatever the two lists hold
Finish_writes_empty(c, r, a) ==
  LET g  == Cleaned(a.fav_genres)
      au == Cleaned(a.fav_authors)
  IN  [call |-> c, rt |-> Begin(SetUserValues(c.uid, g, au, FALSE), DefaultTries),
       acc |-> [a EXCEPT !.fav_genres = g, !.fav_authors = au, !.phase = "save"]]

\* variant of Finish that returns True without sending the lists
Finish_true_without_write(c, r, a) ==
  LET g  == Cleaned(a.fav_genres)
      au == Cleaned(a.fav_authors)
      a2 == [a EXCEPT !.fav_genres = g, !.fav_authors = au]
  IN  IF g = <<>> /\ au = <<>>
      THEN [call |-> Return(c, "False"), rt |-> r, acc |-> a2]
      ELSE [call |-> Return(c, "True"), rt |-> r, acc |-> a2]

\* streamlit_app.py, lines 225-236: nothing to write, or the write is sent
Finish(c, r, a) ==
  LET g  == Cleaned(a.fav_genres)
      au == Cleaned(a.fav_authors)
      a2 == [a EXCEPT !.fav_genres = g, !.fav_authors = au]
  IN  IF g = <<>> /\ au = <<>>
      THEN [call |-> Return(c, "False"), rt |-> r, acc |-> a2]
      ELSE [call |-> c, rt |-> Begin(SetUserValues(c.uid, g, au, FALSE), DefaultTries),
            acc |-> [a2 EXCEPT !.phase = "save"]]

\* init_user_profile_from_3_books, once a send_with_retry of it has ended
init_user_profile_from_3_books(c, r, a) ==
  IF a.phase = "fetch"
  THEN IF r.st = "raised"
       THEN {[call |-> Raise(c, r.last), rt |-> r,
              acc |-> [a EXCEPT !.failed = Append(@, a.items[a.idx])]]}
       ELSE LET a1 == [Accumulate(a, r.resp) EXCEPT
                         !.read = Append(@, a.items[a.idx]), !.idx = a.idx + 1]
            IN  IF a1.idx <= Len(a1.items)
                THEN {[call |-> c, acc |-> a1,
                       rt |-> Begin(GetItemValues(a1.items[a1.idx]), DefaultTries)]}
                ELSE {Finish(c, r, a1)}
  ELSE IF r.st = "raised"
       THEN {[call |-> Raise(c, r.last), rt |-> r, acc |-> a]}
       ELSE {[call |-> Return(c, "True"), rt |-> r, acc |-> a]}

\* list(a_set): the elements in the order the set's iteration gives
RECURSIVE Orders(_)
Orders(S) ==
  IF S = {} THEN {<<>>}
  ELSE UNION {{<<x>> \o p : p \in Orders(S \ {x})} : x \in S}

\* the strings of a list of strings
Elements(l) == {l[i].s : i \in 1..Len(l)}

\* app.py, lines 83-90: what the values of one item add to the two sets
AppAccumulate(a, values) ==
  [a EXCEPT
     !.set_authors = IF Truthy(values.author) THEN @ \cup {values.author.s} ELSE @,
     !.set_genres = IF IsList(values.genres) THEN @ \cup Elements(values.genres.l)
                    ELSE @]

\* app.py, lines 94-104: nothing chosen, or the write is sent
AppFinish(c, r, a) ==
  IF a.set_genres = {} /\ a.set_authors = {}
  THEN {[call |-> Return(c, "None"), rt |-> r, acc |-> a]}
  ELSE {[call |-> c, rt |-> Begin(SetUserValues(c.uid, g, au, TRUE), 1),
         acc |-> [a EXCEPT !.phase = "save", !.fav_genres = g, !.fav_authors = au]] :
          g \in Orders(a.set_genres), au \in Orders(a.set_authors)}

\* app.py, `for idx in range(1, 4)`: the next book, or the end of the loop
AppNextBook(c, r, a) ==
  IF a.idx + 1 <= MaxPicks
  THEN {[call |-> c, rt |-> NoRt,
         acc |-> [a EXCEPT !.idx = a.idx + 1, !.phase = "prompt"]]}
  ELSE AppFinish(c, r, [a EXCEPT !.idx = a.idx + 1])

\* init_user_profile (with search_and_choose_book), once a client.send of it
\* has ended
init_user_profile(c, r, a) ==
  CASE a.phase = "search" ->
         IF r.st = "raised" THEN AppFinish([c EXCEPT !.reported = TRUE], r, a)
         ELSE IF r.resp.recomms = <<>>
         THEN {[call |-> c, rt |-> NoRt, acc |-> [a EXCEPT !.phase = "prompt"]]}
         ELSE {[call |-> c, rt |-> NoRt,
                acc |-> [a EXCEPT !.phase = "pick", !.recomms = r.resp.recomms]]}
    [] a.phase = "view" ->
         {[call |-> [c EXCEPT !.reported = @ \/ r.st = "raised"],
           rt |-> Begin(GetItemValues(a.items[Len(a.items)]), 1),
           acc |-> [a EXCEPT !.phase = "fetch"]]}
    [] a.phase = "fetch" ->
         IF r.st = "raised"
         THEN AppNextBook([c EXCEPT !.reported = TRUE], r,
                          [a EXCEPT !.failed = Append(@, a.items[Len(a.items)])])
         ELSE AppNextBook(c, r, [AppAccumulate(a, r.resp) EXCEPT
                                   !.read = Append(@, a.items[Len(a.items)])])
    [] OTHER -> \* "save"
         IF r.st = "raised" THEN {[call |-> Return([c EXCEPT !.reported = TRUE], "None"),
                                   rt |-> r, acc |-> a]}
         ELSE {[call |-> Return(c, "None"), rt |-> r, acc |-> a]}

\* ------------------------------------------------------------------------
\* Rating, and the terminal shell's menu actions
\* ------------------------------------------------------------------------

\* the star values of the dashboard's slider, 1.0 to 5.0 in steps of 0.5
SliderValues == (1 * StarUnit)..(5 * StarUnit)

\* the item ids typed in the dashboard's rating tab
RatedItems == {"A"}

\* what is typed at "Introdu rating (1-5)": no number, or a number
TypedRatings ==
  {[num |-> FALSE, h |-> 0]} \cup {[num |-> TRUE, h |-> x] : x \in 0..MaxTyped}

\* app.py, lines 225-231: float(rating_str) succeeds and 1 <= rating <= 5
AcceptedRating(x) == x.num /\ 1 * StarUnit <= x.h /\ x.h <= 5 * StarUnit

\* variant of rate_item that sends the star value as the rating
rate_item_unscaled(u, i, h) == AddRating(u, i, [num |-> h, den |-> StarUnit])

\* streamlit_app.py rate_item: r = (stars_1_to_5 - 3) / 2, for the star value
\* h / StarUnit, and the request that carries it
rate_item(u, i, h) ==
  AddRating(u, i, [num |-> h - 3 * StarUnit, den |-> 2 * StarUnit])

\* app.py action_rate_book, lines 234-235: r = (rating - 3) / 2 and the request
action_rate_book(u, i, h) ==
  AddRating(u, i, [num |-> h - 3 * StarUnit, den |-> 2 * StarUnit])

\* the menu actions of app.py that begin with search_and_choose_book
MenuOps == {"search_book", "rate_book", "similar"}

\* search_and_choose_book returned None to its caller
NoBook(c, r, a) ==
  IF c.op = "build" THEN AppFinish(c, r, a)
  ELSE {[call |-> Return(c, "None"), rt |-> r, acc |-> a]}

\* action_search_book, action_rate_book, action_similar_books and
\* action_recommend_for_user, once a client.send of theirs has ended
menu_action(c, r, a) ==
  CASE a.phase = "search" ->
         IF r.st = "raised" THEN NoBook([c EXCEPT !.reported = TRUE], r, a)
         ELSE IF r.resp.recomms = <<>>
         THEN {[call |-> c, rt |-> NoRt, acc |-> [a EXCEPT !.phase = "prompt"]]}
         ELSE {[call |-> c, rt |-> NoRt,
                acc |-> [a EXCEPT !.phase = "pick", !.recomms = r.resp.recomms]]}
    [] a.phase = "view" ->
         LET c1 == [c EXCEPT !.reported = @ \/ r.st = "raised"]
             item == a.items[Len(a.items)]
         IN  CASE c.op = "search_book" -> {[call |-> Return(c1, "None"), rt |-> r, acc |-> a]}
               [] c.op = "rate_book" ->
                    {[call |-> c1, rt |-> NoRt, acc |-> [a EXCEPT !.phase = "stars"]]}
               [] OTHER ->
                    {[call |-> c1, rt |-> Begin(RecommendItemsToItem(item, c.uid), 1),
                      acc |-> [a EXCEPT !.phase = "recommend"]]}
    [] a.phase = "rate" ->
         {[call |-> IF r.st = "raised" THEN Raise(c, r.last) ELSE Return(c, "None"),
           rt |-> r, acc |-> a]}
    [] OTHER -> \* "recommend"
         {[call |-> Return([c EXCEPT !.reported = @ \/ r.st = "raised"], "None"),
           rt |-> r, acc |-> a]}

\* ------------------------------------------------------------------------
\* Steps
\* ------------------------------------------------------------------------

\* the lists of picked item ids the dashboard hands to the builder
PickLists ==
  UNION {Orders(S) : S \in {T \in SUBSET ItemIds :
                              Cardinality(T) >= 1 /\ Cardinality(T) <= MaxPicks}}

\* the requests a direct call of send_with_retry is given
DirectRequests == {AddUser(u) : u \in UserIds} \cup {GetUserValues(u) : u \in UserIds}

Idle(s) == s \in active /\ call[s].status # "running"

\* entering function `op` for user id u; what preceded is kept for the two
\* entity helpers
StartCall(s, op, u) ==
  LET clean == /\ op \in {"ensure_user", "user_has_profile"}
               /\ call[s].status = "done"
               /\ call[s].uid = u
               /\ call[s].outcome = "return"
               /\ ~call[s].faulted
  IN  [NoCall EXCEPT !.op = op, !.status = "running", !.uid = u, !.users0 = users,
                     !.follows = IF clean THEN call[s].op ELSE "none",
                     !.followsRet = IF clean THEN call[s].ret ELSE "None",
                     !.profile0 = IF op = "build" THEN profile ELSE @,
                     !.first = call[s].first]

Tries(s) == IF shell[s] = "dash" THEN DefaultTries ELSE 1

\* ensure_user(user_id) is called
CallEnsureUser(s, u) ==
  /\ Idle(s)
  /\ call' = [call EXCEPT ![s] = StartCall(s, "ensure_user", u)]
  /\ rt' = [rt EXCEPT ![s] = Begin(AddUser(u), Tries(s))]
  /\ acc' = [acc EXCEPT ![s] = NoAcc]
  /\ UNCHANGED <<users, profile, wrote, active, shell, pure, main, page>>

\* user_has_profile(user_id) is called
CallUserHasProfile(s, u) ==
  /\ Idle(s)
  /\ call' = [call EXCEPT ![s] = StartCall(s, "user_has_profile", u)]
  /\ rt' = [rt EXCEPT ![s] = Begin(GetUserValues(u), Tries(s))]
  /\ acc' = [acc EXCEPT ![s] = NoAcc]
  /\ UNCHANGED <<users, profile, wrote, active, shell, pure, main, page>>

\* send_with_retry(req, tries) is called
CallSend(s, req, n) ==
  /\ Idle(s)
  /\ shell[s] = "dash"
  /\ call' = [call EXCEPT ![s] = StartCall(s, "send", req.user)]
  /\ rt' = [rt EXCEPT ![s] = Begin(req, n)]
  /\ acc' = [acc EXCEPT ![s] = NoAcc]
  /\ UNCHANGED <<users, profile, wrote, active, shell, pure, main, page>>

\* init_user_profile_from_3_books(user_id, item_ids) is called
CallInitUserProfileFrom3Books(s, u, ids) ==
  /\ Idle(s)
  /\ shell[s] = "dash"
  /\ call' = [call EXCEPT ![s] = StartCall(s, "build", u)]
  /\ rt' = [rt EXCEPT ![s] = Begin(GetItemValues(ids[1]), DefaultTries)]
  /\ acc' = [acc EXCEPT ![s] = [NoAcc EXCEPT !.phase = "fetch", !.items = ids, !.idx = 1]]
  /\ UNCHANGED <<users, profile, wrote, active, shell, pure, main, page>>

\* init_user_profile(user_id) is called: the first prompt
CallInitUserProfile(s, u) ==
  /\ Idle(s)
  /\ shell[s] = "cli"
  /\ call' = [call EXCEPT ![s] = StartCall(s, "build", u)]
  /\ rt' = [rt EXCEPT ![s] = NoRt]
  /\ acc' = [acc EXCEPT ![s] = [NoAcc EXCEPT !.phase = "prompt", !.idx = 1]]
  /\ UNCHANGED <<users, profile, wrote, active, shell, pure, main, page>>

\* rate_item(user_id, item_id, stars) is called with the slider's value
CallRateItem(s, u, i, h) ==
  /\ Idle(s)
  /\ shell[s] = "dash"
  /\ h \in SliderValues
  /\ call' = [call EXCEPT ![s] = StartCall(s, "rate_item", u)]
  /\ rt' = [rt EXCEPT ![s] = Begin(rate_item(u, i, h), DefaultTries)]
  /\ acc' = [acc EXCEPT ![s] = [NoAcc EXCEPT !.stars = h]]
  /\ UNCHANGED <<users, profile, wrote, active, shell, pure, main, page>>

\* action_search_book, action_rate_book or action_similar_books is called: the
\* title prompt of search_and_choose_book
CallMenuAction(s, u, op) ==
  /\ Idle(s)
  /\ shell[s] = "cli"
  /\ call' = [call EXCEPT ![s] = StartCall(s, op, u)]
  /\ rt' = [rt EXCEPT ![s] = NoRt]
  /\ acc' = [acc EXCEPT ![s] = [NoAcc EXCEPT !.phase = "prompt"]]
  /\ UNCHANGED <<users, profile, wrote, active, shell, pure, main, page>>

\* action_recommend_for_user is called
CallActionRecommendForUser(s, u) ==
  /\ Idle(s)
  /\ shell[s] = "cli"
  /\ call' = [call EXCEPT ![s] = StartCall(s, "recommend", u)]
  /\ rt' = [rt EXCEPT ![s] = Begin(RecommendItemsToUser(u), 1)]
  /\ acc' = [acc EXCEPT ![s] = [NoAcc EXCEPT !.phase = "recommend"]]
  /\ UNCHANGED <<users, profile, wrote, active, shell, pure, main, page>>

InPhase(s, ph) ==
  /\ s \in active
  /\ call[s].status = "running"
  /\ call[s].op \in {"build"} \cup MenuOps
  /\ shell[s] = "cli"
  /\ acc[s].phase = ph

Becomes(s, n) ==
  /\ call' = [call EXCEPT ![s] = n.call]
  /\ rt' = [rt EXCEPT ![s] = n.rt]
  /\ acc' = [acc EXCEPT ![s] = n.acc]

\* search_and_choose_book: the user types a title, SearchItems is to be sent
CliQuery(s) ==
  /\ InPhase(s, "prompt")
  /\ rt' = [rt EXCEPT ![s] = Begin(SearchItems(call[s].uid, FALSE), 1)]
  /\ acc' = [acc EXCEPT ![s].phase = "search"]
  /\ UNCHANGED <<users, profile, wrote, active, shell, pure, main, call, page>>

\* search_and_choose_book: ENTER at the title prompt, the loop over books ends
CliCancel(s) ==
  /\ InPhase(s, "prompt")
  /\ \E n \in NoBook(call[s], rt[s], acc[s]) : Becomes(s, n)
  /\ UNCHANGED <<users, profile, wrote, active, shell, pure, main, page>>

\* search_and_choose_book: the user picks result k, AddDetailView is to be sent
CliPick(s, k) ==
  /\ InPhase(s, "pick")
  /\ k \in 1..Len(acc[s].recomms)
  /\ rt' = [rt EXCEPT ![s] = Begin(AddDetailView(call[s].uid, acc[s].recomms[k]), 1)]
  /\ acc' = [acc EXCEPT ![s].phase = "view", ![s].recomms = <<>>,
                        ![s].items = Append(@, acc[s].recomms[k])]
  /\ UNCHANGED <<users, profile, wrote, active, shell, pure, main, call, page>>

\* search_and_choose_book: the user answers 0, the loop over books ends
CliBack(s) ==
  /\ InPhase(s, "pick")
  /\ \E n \in NoBook(call[s], rt[s], acc[s]) : Becomes(s, n)
  /\ UNCHANGED <<users, profile, wrote, active, shell, pure, main, page>>

\* search_and_choose_book: no number or a number out of range, asked again
CliInvalid(s) ==
  /\ InPhase(s, "pick")
  /\ acc' = [acc EXCEPT ![s].phase = "prompt", ![s].recomms = <<>>]
  /\ UNCHANGED <<users, profile, wrote, active, shell, pure, main, call, rt, page>>

\* action_rate_book: a rating is typed; it is asked again until it is a number
\* from 1 to 5, then AddRating is to be sent
CliStars(s, x) ==
  /\ InPhase(s, "stars")
  /\ IF AcceptedRating(x)
     THEN /\ rt' = [rt EXCEPT ![s] = Begin(action_rate_book(call[s].uid,
                                             acc[s].items[Len(acc[s].items)], x.h), 1)]
          /\ acc' = [acc EXCEPT ![s].phase = "rate", ![s].stars = x.h]
     ELSE UNCHANGED <<rt, acc>>
  /\ UNCHANGED <<users, profile, wrote, active, shell, pure, main, call, page>>

\* what the called function does once the transport has ended
Continue(sh, c, r, a) ==
  IF r.st = "pending" THEN {[call |-> c, rt |-> r, acc |-> a]}
  ELSE CASE c.op = "send" ->
              {[call |-> IF r.st = "raised" THEN Raise(c, r.last) ELSE Return(c, "resp"),
                rt |-> r, acc |-> a]}
         [] c.op = "ensure_user" ->
              {[call |-> IF sh = "dash" THEN ensure_user(c, r) ELSE app_ensure_user(c, r),
                rt |-> r, acc |-> a]}
         [] c.op = "user_has_profile" ->
              {[call |-> IF sh = "dash" THEN user_has_profile(c, r)
                         ELSE app_user_has_profile(c, r),
                rt |-> r, acc |-> a]}
         [] c.op = "rate_item" ->
              {[call |-> IF r.st = "raised" THEN Raise(c, r.last) ELSE Return(c, "None"),
                rt |-> r, acc |-> a]}
         [] c.op \in MenuOps \cup {"recommend"} -> menu_action(c, r, a)
         [] OTHER ->
              IF sh = "dash" THEN init_user_profile_from_3_books(c, r, a)
              ELSE init_user_profile(c, r, a)

\* one client.send of the pending request, and the code that follows it
\* a run of main() or of the dashboard script is under way in session s
InSession(s) == s \in active /\ (main[s] # "free" \/ page.pc # "idle")

Attempt(s) ==
  /\ s \in active
  /\ call[s].status = "running"
  /\ rt[s].st = "pending"
  /\ \E o \in Outcomes(rt[s].req, users, profile) :
       /\ users' = o.users
       /\ profile' = o.profile
       /\ wrote' = (wrote \/ (rt[s].req.kind = "SetUserValues" /\ o.applied))
       /\ \E n \in Continue(shell[s], [call[s] EXCEPT !.faulted = @ \/ o.fault,
                                                      !.sent = @ \cup {rt[s].req.kind},
                                                      !.first =
                                                        IF /\ @ = "none"
                                                           /\ InSession(s)
                                                           /\ rt[s].req.user = call[s].uid
                                                        THEN rt[s].req.kind ELSE @],
                            Transport(shell[s], rt[s], o), acc[s]) :
            Becomes(s, n)
  /\ UNCHANGED <<active, shell, pure, main, page>>

Init ==
  /\ users = {}
  /\ profile = [u \in UserIds |-> NoProfile]
  /\ wrote = FALSE
  /\ active = {1}
  /\ shell \in {f \in [Sessions -> {"dash", "cli"}] :
                  \A s \in Sessions \ {1} : f[s] = "dash"}
  /\ call = [s \in Sessions |-> NoCall]
  /\ rt = [s \in Sessions |-> NoRt]
  /\ acc = [s \in Sessions |-> NoAcc]
  /\ pure = NoPure
  /\ main = [s \in Sessions |-> "free"]
  /\ page = NoPage

Next ==
  \/ \E s \in Sessions, u \in UserIds : CallEnsureUser(s, u)
  \/ \E s \in Sessions, u \in UserIds : CallUserHasProfile(s, u)
  \/ \E s \in Sessions, req \in DirectRequests, n \in 1..MaxTries : CallSend(s, req, n)
  \/ \E s \in Sessions, u \in UserIds, ids \in PickLists :
       CallInitUserProfileFrom3Books(s, u, ids)
  \/ \E s \in Sessions, u \in UserIds : CallInitUserProfile(s, u)
  \/ \E s \in Sessions : CliQuery(s)
  \/ \E s \in Sessions : CliCancel(s)
  \/ \E s \in Sessions, k \in 1..Cardinality(ItemIds) : CliPick(s, k)
  \/ \E s \in Sessions : CliBack(s)
  \/ \E s \in Sessions : CliInvalid(s)
  \/ \E s \in Sessions, u \in UserIds, i \in RatedItems, h \in SliderValues :
       CallRateItem(s, u, i, h)
  \/ \E s \in Sessions, u \in UserIds, op \in MenuOps : CallMenuAction(s, u, op)
  \/ \E s \in Sessions, u \in UserIds : CallActionRecommendForUser(s, u)
  \/ \E s \in Sessions, x \in TypedRatings : CliStars(s, x)
  \/ \E s \in Sessions : Attempt(s)

Spec == Init /\ [][Next]_vars

\* ------------------------------------------------------------------------
\* Properties
\* ------------------------------------------------------------------------

Done(s, op) == s \in active /\ call[s].status = "done" /\ call[s].op = op

Dash(s) == s \in active /\ shell[s] = "dash"

Failed(e) == e # NoError

AllTransient(outs) == \A k \in 1..Len(outs) : IsTransient(outs[k].err)

\* C1: a request whose every attempt times out, sent with tries = 3, is attempted
\* exactly 3 times, then the last timeout is raised; the sleeps are those after
\* attempts 0 and 1 (base_sleep and 2 * base_sleep), none after the last attempt.
C1_SleepsOnlyBetweenAttempts ==
  \A s \in Sessions :
    (/\ Dash(s)
     /\ rt[s].tries = 3
     /\ rt[s].st \in {"returned", "raised"}
     /\ AllTransient(rt[s].outs))
    => /\ Len(rt[s].outs) = 3
       /\ rt[s].rx = 3
       /\ rt[s].st = "raised"
       /\ rt[s].last = rt[s].outs[3].err
       /\ rt[s].sleeps = <<BaseSleep, 2 * BaseSleep>>

\* C2: in send_with_retry an error that is not transient, at whatever attempt it
\* occurs, is the last thing the call does: it is raised, no sleep follows it and
\* no further attempt is made (first attempt: exactly one send).
C2_NonTransientRaisedAtOnce ==
  \A s \in Sessions :
    Dash(s) =>
      \A k \in 1..Len(rt[s].outs) :
        (Failed(rt[s].outs[k].err) /\ ~IsTransient(rt[s].outs[k].err))
        => /\ k = Len(rt[s].outs)
           /\ rt[s].rx = k
           /\ rt[s].st = "raised"
           /\ rt[s].last = rt[s].outs[k].err
           /\ Len(rt[s].sleeps) = k - 1
           /\ call[s].op = "send"
              => call[s].outcome = "raise" /\ call[s].exc = rt[s].outs[k].err

\* a direct call whose second attempt, after a timeout, is answered 409
C2_Witness ==
  \E s \in Sessions :
    /\ Dash(s)
    /\ Done(s, "send")
    /\ Len(rt[s].outs) = 2
    /\ rt[s].outs[2].err = ResponseException(409)
    /\ call[s].outcome = "raise"

\* C3: in send_with_retry the attempt k that succeeds, after k-1 transient
\* failures, is the last one: its response is returned and the service has
\* received exactly k sends.
C3_NoAttemptAfterSuccess ==
  \A s \in Sessions :
    Dash(s) =>
      \A k \in 1..Len(rt[s].outs) :
        rt[s].outs[k].err = NoError
        => /\ k = Len(rt[s].outs)
           /\ k <= rt[s].tries
           /\ rt[s].rx = k
           /\ rt[s].st = "returned"
           /\ rt[s].resp = rt[s].outs[k].resp
           /\ \A j \in 1..(k - 1) : IsTransient(rt[s].outs[j].err)
           /\ call[s].op = "send"
              => call[s].outcome = "return" /\ call[s].ret = "resp"

\* a direct call with tries = 3 that succeeds at its third attempt
C3_Witness ==
  \E s \in Sessions :
    /\ Dash(s)
    /\ Done(s, "send")
    /\ rt[s].tries = 3
    /\ Len(rt[s].outs) = 3
    /\ rt[s].outs[3].err = NoError
    /\ call[s].outcome = "return"

\* C4: ensure_user answered by the service returns normally: it creates a user
\* that did not exist; called again for the same id right after, it receives
\* 409, reports nothing, and leaves the set of users as the first call left it.
C4_EnsureUserTwice ==
  \A s \in Sessions :
    (Done(s, "ensure_user") /\ ~call[s].faulted)
    => /\ call[s].outcome = "return"
       /\ call[s].uid \notin call[s].users0
          => users = call[s].users0 \cup {call[s].uid}
       /\ call[s].follows = "ensure_user"
          => /\ call[s].uid \in call[s].users0
             /\ rt[s].last = ResponseException(409)
             /\ ~call[s].reported
             /\ users = call[s].users0

\* the second of two ensure_user calls in a row has absorbed the conflict
C4_Witness ==
  \E s \in Sessions :
    /\ Done(s, "ensure_user")
    /\ ~call[s].faulted
    /\ call[s].follows = "ensure_user"
    /\ rt[s].last = ResponseException(409)
    /\ call[s].outcome = "return"

\* C5: whenever the create-user request fails with something else than 409
\* (another status code, or timeouts until the attempts are used up),
\* ensure_user reports the failure and returns normally.
C5_EnsureUserNeverAborts ==
  \A s \in Sessions :
    (/\ Done(s, "ensure_user")
     /\ rt[s].st = "raised"
     /\ \/ rt[s].last.cls = "ResponseException" /\ rt[s].last.status # 409
        \/ IsTransient(rt[s].last))
    => call[s].outcome = "return" /\ call[s].reported

\* C6: when the fetch of user_has_profile fails, it returns False if the failure
\* is the service's 404, and otherwise raises that failure to its caller.
C6_ProfileLookupFailures ==
  \A s \in Sessions :
    (Done(s, "user_has_profile") /\ rt[s].st = "raised")
    => IF rt[s].last = ResponseException(404)
       THEN call[s].outcome = "return" /\ call[s].ret = "False"
       ELSE call[s].outcome = "raise" /\ call[s].exc = rt[s].last

\* user_has_profile has raised the timeout of its third attempt
C6_Witness ==
  \E s \in Sessions :
    /\ Dash(s)
    /\ Done(s, "user_has_profile")
    /\ Len(rt[s].outs) = 3
    /\ call[s].outcome = "raise"
    /\ call[s].exc = ApiTimeout

\* C7: when the fetch succeeds, user_has_profile returns True exactly when
\* normalize_list of the stored fav_genres or of the stored fav_authors is not
\* empty.
C7_ProfileIffNormalizedNonEmpty ==
  \A s \in Sessions :
    (Done(s, "user_has_profile") /\ rt[s].st = "returned")
    => /\ call[s].outcome = "return"
       /\ call[s].ret = Bool(normalize_list(rt[s].resp.fav_genres) # <<>>
                             \/ normalize_list(rt[s].resp.fav_authors) # <<>>)

\* C8: as long as no profile was written, user_has_profile answered by the
\* service returns, and what it returns is False, for an id that does not exist
\* as for one that exists.
C8_NoProfileBeforeFirstWrite ==
  \A s \in Sessions :
    (Done(s, "user_has_profile") /\ ~wrote)
    => /\ ~call[s].faulted => call[s].outcome = "return"
       /\ call[s].outcome = "return" => call[s].ret = "False"

\* the id was created by ensure_user, then looked up, with no value stored
C8_Witness ==
  \E s \in Sessions :
    /\ Done(s, "user_has_profile")
    /\ ~wrote
    /\ call[s].follows = "ensure_user"
    /\ call[s].uid \in users
    /\ rt[s].st = "returned"
    /\ call[s].ret = "False"

\* C9: the builder never raises because a fetch failed: every chosen item is
\* fetched, the failing ones are skipped, and when all fail it returns false
\* (nothing) without sending a write.
C9_FetchFailuresAreSkipped ==
  \A s \in Sessions :
    Done(s, "build")
    => /\ ~(call[s].outcome = "raise" /\ rt[s].req.kind = "GetItemValues")
       /\ Len(acc[s].read) + Len(acc[s].failed) = Len(acc[s].items)
       /\ (acc[s].read = <<>> /\ acc[s].failed # <<>>)
          => /\ call[s].outcome = "return"
             /\ call[s].ret \in {"False", "None"}
             /\ acc[s].phase # "save"

CaseInsensitiveUnique(ss) ==
  \A i, j \in 1..Len(ss) : i # j => Lower(ss[i]) # Lower(ss[j])

\* the trimmed non-empty strings of ss, each kept where it first occurs
\* (compared lower-cased)
FirstOccurrences(ss) ==
  LET t == [i \in 1..Len(ss) |-> Strip(ss[i])]
      keep == {i \in 1..Len(ss) :
                 t[i] # <<>> /\ \A j \in 1..(i - 1) : Lower(t[j]) # Lower(t[i])}
      RECURSIVE Pick(_)
      Pick(i) == IF i > Len(ss) THEN <<>>
                 ELSE IF i \in keep THEN <<t[i]>> \o Pick(i + 1) ELSE Pick(i + 1)
  IN  Pick(1)

RECURSIVE GenresOf(_)
GenresOf(ids) ==
  IF ids = <<>> THEN <<>>
  ELSE Strings(Catalog[Head(ids)].genres) \o GenresOf(Tail(ids))

RECURSIVE AuthorsOf(_)
AuthorsOf(ids) ==
  IF ids = <<>> THEN <<>>
  ELSE (IF Catalog[Head(ids)].author.t = "str" THEN <<Catalog[Head(ids)].author.s>>
        ELSE <<>>) \o AuthorsOf(Tail(ids))

\* C10: a stored profile holds no empty string and no two elements equal when
\* lower-cased, and the profile the builder has just written is, in each list,
\* the first occurrences over the items read, in their order and casing.
C10_PersistedProfileIsClean ==
  /\ \A u \in UserIds :
       /\ CaseInsensitiveUnique(Strings(profile[u].fav_genres))
       /\ CaseInsensitiveUnique(Strings(profile[u].fav_authors))
       /\ \A i \in 1..Len(profile[u].fav_genres.l) : profile[u].fav_genres.l[i].s # <<>>
       /\ \A i \in 1..Len(profile[u].fav_authors.l) : profile[u].fav_authors.l[i].s # <<>>
  /\ \A s \in Sessions :
       (Done(s, "build") /\ acc[s].phase = "save" /\ rt[s].st = "returned")
       => /\ Strings(profile[call[s].uid].fav_genres)
               = FirstOccurrences(GenresOf(acc[s].read))
          /\ Strings(profile[call[s].uid].fav_authors)
               = FirstOccurrences(AuthorsOf(acc[s].read))

\* the builder of session s has processed every item it was given (dashboard:
\* all fetched; terminal: the loop over books has ended)
AllProcessed(s) ==
  /\ Done(s, "build")
  /\ shell[s] = "dash" => Len(acc[s].read) = Len(acc[s].items)

\* the two lists the builder of session s ends with are empty: the dashboard's
\* trimmed lists, the terminal shell's sets
BothEmpty(s) ==
  IF shell[s] = "dash"
  THEN /\ FirstOccurrences(GenresOf(acc[s].read)) = <<>>
       /\ FirstOccurrences(AuthorsOf(acc[s].read)) = <<>>
  ELSE /\ GenresOf(acc[s].read) = <<>>
       /\ AuthorsOf(acc[s].read) = <<>>

\* C11: when all items are processed and both lists are empty, the builder
\* returns false (nothing written), has sent no SetUserValues, and the stored
\* profiles are those stored when it began.
C11_EmptyListsWriteNothing ==
  \A s \in Sessions :
    (AllProcessed(s) /\ BothEmpty(s))
    => /\ call[s].outcome = "return"
       /\ call[s].ret \in {"False", "None"}
       /\ "SetUserValues" \notin call[s].sent
       /\ profile = call[s].profile0

\* an item with no author and no genres was fetched by a builder that began
\* with a profile stored
C11_Witness ==
  \E s \in Sessions :
    /\ AllProcessed(s)
    /\ BothEmpty(s)
    /\ acc[s].read # <<>>
    /\ \E k \in 1..Len(acc[s].read) : acc[s].read[k] = "E"
    /\ call[s].ret = "False"
    /\ call[s].profile0[call[s].uid] # NoProfile

\* C12: when the dashboard's builder returns true, the fav_genres and
\* fav_authors stored for the user are exactly the two lists this run computed,
\* nothing of what was stored before is kept, and the SetUserValues it sent was
\* answered with success before it returned.
C12_TrueMeansReplaced ==
  \A s \in Sessions :
    (Dash(s) /\ Done(s, "build") /\ call[s].ret = "True")
    => /\ Strings(profile[call[s].uid].fav_genres) = acc[s].fav_genres
       /\ Strings(profile[call[s].uid].fav_authors) = acc[s].fav_authors
       /\ acc[s].fav_genres = FirstOccurrences(GenresOf(acc[s].read))
       /\ acc[s].fav_authors = FirstOccurrences(AuthorsOf(acc[s].read))
       /\ rt[s].req = SetUserValues(call[s].uid, acc[s].fav_genres,
                                    acc[s].fav_authors, FALSE)
       /\ rt[s].st = "returned"
       /\ rt[s].outs[Len(rt[s].outs)].err = NoError

\* the builder returned true for a user whose stored genres held a value that
\* this run did not compute
C12_Witness ==
  \E s \in Sessions :
    /\ Dash(s)
    /\ Done(s, "build")
    /\ call[s].ret = "True"
    /\ \E i \in 1..Len(call[s].profile0[call[s].uid].fav_genres.l) :
         \A j \in 1..Len(acc[s].fav_genres) :
           call[s].profile0[call[s].uid].fav_genres.l[i].s # acc[s].fav_genres[j]

\* the final write of the builder of session s failed
WriteFailed(s) ==
  /\ Done(s, "build")
  /\ acc[s].phase = "save"
  /\ rt[s].req.kind = "SetUserValues"
  /\ rt[s].st = "raised"

\* C13: a failure of the builder's final SetUserValues reaches the builder's
\* caller as that error (the builder neither returns true nor swallows it),
\* while the failure of an item's fetch never ends the builder.
C13_WriteFailurePropagates ==
  \A s \in Sessions :
    /\ WriteFailed(s) => /\ call[s].outcome = "raise"
                         /\ call[s].exc = rt[s].last
    /\ Done(s, "build") => ~(call[s].outcome = "raise" /\ rt[s].req.kind = "GetItemValues")

\* ------------------------------------------------------------------------
\* The normalizer's functions called on their own
\* ------------------------------------------------------------------------

\* longest list handed to a function of the normalizer
MaxLen == 2

\* the sequences over S of length up to n
RECURSIVE SeqsUpTo(_, _)
SeqsUpTo(S, n) ==
  IF n = 0 THEN {<<>>}
  ELSE LET shorter == SeqsUpTo(S, n - 1)
       IN  shorter \cup {Append(q, x) : q \in shorter, x \in S}

\* scalars: None, strings (empty, blank, padded, differing in case), integers
Scalars ==
  {None, Str(<<>>), Str(<<" ">>), Str(<<"a">>), Str(<<"A">>), Str(<<" ", "b", " ">>),
   PyInt(0), PyInt(7)}

\* lists found inside a list
NestedLists ==
  {List(<<>>), List(<<Str(<<"a">>), Str(<<" ">>)>>), List(<<PyInt(7), None>>)}

\* the values normalize_list is given: a scalar, or a list of scalars and lists
NormalizerInputs ==
  Scalars \cup {List(l) : l \in SeqsUpTo(Scalars \cup NestedLists, MaxLen)}

\* normalize_list(x) is called
CallNormalizeList ==
  /\ pure.fn = "none"
  /\ pure.arg \in NormalizerInputs
  /\ pure' = [pure EXCEPT !.fn = "normalize_list", !.res = normalize_list(pure.arg)]
  /\ UNCHANGED <<users, profile, wrote, active, shell, call, rt, acc, main, page>>

\* longest sequence handed to unique_ci
MaxSeq == 3

\* strings that differ in case only, and strings that differ
Words == {<<"a">>, <<"A">>, <<"b">>, <<"B", "b">>, <<"b", "B">>}

\* the sequences of strings unique_ci is given
UniqueInputs == {StrList(q) : q \in SeqsUpTo(Words, MaxSeq)}

\* unique_ci(seq) is called
CallUniqueCi ==
  /\ pure.fn = "none"
  /\ pure.arg \in UniqueInputs
  /\ pure' = [pure EXCEPT !.fn = "unique_ci", !.res = unique_ci(Strings(pure.arg))]
  /\ UNCHANGED <<users, profile, wrote, active, shell, call, rt, acc, main, page>>

\* the values an item's `genres` may hold: absent, a string, a list of strings
\* and lists of strings
GenresInputs ==
  {None, Str(<<"a">>)}
  \cup {List(l) : l \in SeqsUpTo({Str(<<"a">>), Str(<<" ", "b", " ">>), Str(<<"A">>),
                                     List(<<Str(<<"a">>), Str(<<"c">>)>>)}, MaxLen)}

\* streamlit_app.py, lines 197-223, for one item whose genres are pure.arg: what
\* the item adds to fav_genres, cleaned and deduplicated
CallAccumulate ==
  /\ pure.fn = "none"
  /\ pure.arg \in GenresInputs
  /\ pure' = [pure EXCEPT
                !.fn = "accumulate",
                !.res = Cleaned(Accumulate(NoAcc, [NoResp EXCEPT !.genres = pure.arg]).fav_genres)]
  /\ UNCHANGED <<users, profile, wrote, active, shell, call, rt, acc, main, page>>

\* set.update(genres) raises TypeError when an element of genres is a list
Unhashable(genres) == IsList(genres) /\ \E i \in 1..Len(genres.l) : IsList(genres.l[i])

\* app.py, lines 83-101, for one item whose genres are pure.arg: what the item
\* adds to fav_genres, as list(fav_genres)
CallAppAccumulate ==
  /\ pure.fn = "none"
  /\ pure.arg \in GenresInputs
  /\ IF Unhashable(pure.arg)
     THEN pure' = [pure EXCEPT !.fn = "app_accumulate", !.raised = TRUE]
     ELSE \E g \in Orders(AppAccumulate(NoAcc, [NoResp EXCEPT !.genres = pure.arg]).set_genres) :
            pure' = [pure EXCEPT !.fn = "app_accumulate", !.res = g]
  /\ UNCHANGED <<users, profile, wrote, active, shell, call, rt, acc, main, page>>

InitPure ==
  /\ users = {}
  /\ profile = [u \in UserIds |-> NoProfile]
  /\ wrote = FALSE
  /\ active = {}
  /\ shell = [s \in Sessions |-> "dash"]
  /\ call = [s \in Sessions |-> NoCall]
  /\ rt = [s \in Sessions |-> NoRt]
  /\ acc = [s \in Sessions |-> NoAcc]
  /\ pure \in {[NoPure EXCEPT !.arg = x] : x \in NormalizerInputs \cup UniqueInputs \cup GenresInputs}
  /\ main = [s \in Sessions |-> "free"]
  /\ page = NoPage

NextPure ==
  \/ CallNormalizeList
  \/ CallUniqueCi
  \/ CallAccumulate
  \/ CallAppAccumulate

SpecPure == InitPure /\ [][NextPure]_vars

\* the elements of an input in the order met, the elements of a nested list in
\* the place of that list; an absent input has none
RECURSIVE Flat(_)
Flat(l) ==
  IF l = <<>> THEN <<>>
  ELSE (IF IsList(Head(l)) THEN Head(l).l ELSE <<Head(l)>>) \o Flat(Tail(l))

ElementsMet(x) ==
  CASE x.t = "none" -> <<>>
    [] x.t = "list" -> Flat(x.l)
    [] OTHER        -> <<x>>

\* each element as a string, trimmed, the empty ones left out
Trimmed(es) == SelectSeq([i \in 1..Len(es) |-> Strip(PyStr(es[i]))], NonEmpty)

\* C14: for every input (absent, a scalar, a list of scalars, a list holding
\* lists), normalize_list returns the elements met, in their order, as trimmed
\* non-empty strings, nested lists flattened one level, nothing deduplicated; a
\* single scalar that is not blank gives exactly one element.
C14_NormalizeListContract ==
  pure.fn = "normalize_list"
  => /\ pure.res = Trimmed(ElementsMet(pure.arg))
     /\ (pure.arg.t \in {"str", "int"} /\ Strip(PyStr(pure.arg)) # <<>>)
        => pure.res = <<Strip(PyStr(pure.arg))>>

\* the elements of ss that no earlier element equals when both are lower-cased
FirstByLower(ss) ==
  LET keep == {i \in 1..Len(ss) : \A j \in 1..(i - 1) : Lower(ss[j]) # Lower(ss[i])}
      RECURSIVE Pick(_)
      Pick(i) == IF i > Len(ss) THEN <<>>
                 ELSE IF i \in keep THEN <<ss[i]>> \o Pick(i + 1) ELSE Pick(i + 1)
  IN  Pick(1)

\* C15: unique_ci(s) holds no two elements equal when lower-cased; it holds,
\* for each lower-cased value of s, the first element of s with that value, as
\* written, in the order of s; and unique_ci of the result is the result.
C15_UniqueCaseInsensitive ==
  pure.fn = "unique_ci"
  => LET s == Strings(pure.arg) IN
     /\ CaseInsensitiveUnique(pure.res)
     /\ {Lower(pure.res[i]) : i \in 1..Len(pure.res)} = {Lower(s[i]) : i \in 1..Len(s)}
     /\ pure.res = FirstByLower(s)
     /\ unique_ci(pure.res) = pure.res

\* a sequence whose third element repeats the first in another case
C15_Witness ==
  /\ pure.fn = "unique_ci"
  /\ Strings(pure.arg) = << <<"a">>, <<"B", "b">>, <<"A">> >>
  /\ pure.res = << <<"a">>, <<"B", "b">> >>

\* the rating requests a session has sent or is sending
IsRating(s) == s \in active /\ rt[s].req.kind = "AddRating"

\* the fraction a / b is below the fraction c / d (b, d > 0)
Below(a, b, c, d) == a * d < c * b

\* C16: every rating request carries, for a star value from 1 to 5, the rating
\* (stars - 3) / 2, which lies in [-1, 1]; 3 gives 0.0, 5 gives 1.0, 1 gives
\* -1.0; of two ratings sent the one for the higher star value is the higher;
\* no rating request exists for a star value outside 1..5.
C16_RatingConversion ==
  \A s \in Sessions :
    IsRating(s)
    => LET h == acc[s].stars
           r == rt[s].req.rating
       IN  /\ 1 * StarUnit <= h /\ h <= 5 * StarUnit
           /\ r.den > 0
           /\ r.num * 2 * StarUnit = (h - 3 * StarUnit) * r.den
           /\ -1 * r.den <= r.num /\ r.num <= 1 * r.den
           /\ h = 3 * StarUnit => r.num = 0
           /\ h = 5 * StarUnit => r.num = r.den
           /\ h = 1 * StarUnit => r.num = -1 * r.den
           /\ \A h2 \in SliderValues :
                LET r2 == (IF shell[s] = "dash" THEN rate_item(call[s].uid, "A", h2)
                           ELSE action_rate_book(call[s].uid, "A", h2)).rating
                IN  h < h2 => Below(r.num, r.den, r2.num, r2.den)

\* a rating of 4.5 stars, typed at the terminal, was sent as 0.75
C16_Witness ==
  \E s \in Sessions :
    /\ IsRating(s)
    /\ rt[s].st = "returned"
    /\ shell[s] = "cli"
    /\ acc[s].stars = 9
    /\ rt[s].req.rating = [num |-> 3, den |-> 4]

\* ------------------------------------------------------------------------
\* app.py main(): the terminal session from the user id prompt to its end
\* ------------------------------------------------------------------------

\* a profile written by an earlier session
EarlierProfile ==
  [fav_genres |-> StrList(<<Drama>>), fav_authors |-> StrList(<< <<"X">> >>)]

\* function `op` is entered by main() with the request r pending and locals a
Enter(s, op, u, r, a) ==
  /\ call' = [call EXCEPT ![s] = StartCall(s, op, u)]
  /\ rt' = [rt EXCEPT ![s] = r]
  /\ acc' = [acc EXCEPT ![s] = a]

At(s, where) == s \in active /\ main[s] = where

Returned(s) == call[s].status = "done" /\ call[s].outcome = "return"

\* main, lines 295-298: nothing typed at the user id prompt, sys.exit(0)
MainNoUserId(s) ==
  /\ At(s, "input")
  /\ main' = [main EXCEPT ![s] = "no_user"]
  /\ UNCHANGED <<users, profile, wrote, active, shell, call, rt, acc, pure, page>>

\* variant of MainEnsureUser without line 302: main goes on to the profile check
MainEnsureUser_skipped(s, u) ==
  /\ At(s, "input")
  /\ Enter(s, "user_has_profile", u, Begin(GetUserValues(u), 1), NoAcc)
  /\ main' = [main EXCEPT ![s] = "profile"]
  /\ UNCHANGED <<users, profile, wrote, active, shell, pure, page>>

\* main, line 302: ensure_user(user_id)
MainEnsureUser(s, u) ==
  /\ At(s, "input")
  /\ Enter(s, "ensure_user", u, Begin(AddUser(u), 1), NoAcc)
  /\ main' = [main EXCEPT ![s] = "ensure"]
  /\ UNCHANGED <<users, profile, wrote, active, shell, pure, page>>

\* main, line 305: user_has_profile(user_id)
MainUserHasProfile(s) ==
  /\ At(s, "ensure")
  /\ Returned(s)
  /\ Enter(s, "user_has_profile", call[s].uid, Begin(GetUserValues(call[s].uid), 1), NoAcc)
  /\ main' = [main EXCEPT ![s] = "profile"]
  /\ UNCHANGED <<users, profile, wrote, active, shell, pure, page>>

\* variant of MainColdStart that does not look at what user_has_profile returned
MainColdStart_unconditional(s) ==
  /\ At(s, "profile")
  /\ Returned(s)
  /\ Enter(s, "build", call[s].uid, NoRt, [NoAcc EXCEPT !.phase = "prompt", !.idx = 1])
  /\ main' = [main EXCEPT ![s] = "coldstart"]
  /\ UNCHANGED <<users, profile, wrote, active, shell, pure, page>>

\* main, line 306: init_user_profile(user_id), the first prompt
MainColdStart(s) ==
  /\ At(s, "profile")
  /\ Returned(s)
  /\ call[s].ret = "False"
  /\ Enter(s, "build", call[s].uid, NoRt, [NoAcc EXCEPT !.phase = "prompt", !.idx = 1])
  /\ main' = [main EXCEPT ![s] = "coldstart"]
  /\ UNCHANGED <<users, profile, wrote, active, shell, pure, page>>

\* main, lines 311-321: the menu is printed, after the profile check, the cold
\* start or a menu action
MainMenu(s) ==
  /\ \/ At(s, "profile") /\ Returned(s) /\ call[s].ret = "True"
     \/ At(s, "coldstart") /\ Returned(s)
     \/ At(s, "action") /\ Returned(s)
  /\ main' = [main EXCEPT ![s] = "menu"]
  /\ call' = [call EXCEPT ![s] = [NoCall EXCEPT !.uid = call[s].uid,
                                                !.first = call[s].first]]
  /\ rt' = [rt EXCEPT ![s] = NoRt]
  /\ acc' = [acc EXCEPT ![s] = NoAcc]
  /\ UNCHANGED <<users, profile, wrote, active, shell, pure, page>>

\* main, lines 323-330: choice 1, 2 or 4
MainChoice(s, op) ==
  /\ At(s, "menu")
  /\ Enter(s, op, call[s].uid, NoRt, [NoAcc EXCEPT !.phase = "prompt"])
  /\ main' = [main EXCEPT ![s] = "action"]
  /\ UNCHANGED <<users, profile, wrote, active, shell, pure, page>>

\* main, lines 327-328: choice 3
MainChoiceRecommend(s) ==
  /\ At(s, "menu")
  /\ Enter(s, "recommend", call[s].uid, Begin(RecommendItemsToUser(call[s].uid), 1),
           [NoAcc EXCEPT !.phase = "recommend"])
  /\ main' = [main EXCEPT ![s] = "action"]
  /\ UNCHANGED <<users, profile, wrote, active, shell, pure, page>>

\* main, lines 331-333: choice 0
MainExit(s) ==
  /\ At(s, "menu")
  /\ main' = [main EXCEPT ![s] = "exited"]
  /\ UNCHANGED <<users, profile, wrote, active, shell, call, rt, acc, pure, page>>

\* main, lines 334-335: any other choice, the menu is printed again
MainInvalidChoice(s) ==
  /\ At(s, "menu")
  /\ UNCHANGED vars

\* main has no try/except: an exception that leaves a function it called ends
\* the process
MainCrash(s) ==
  /\ s \in active
  /\ main[s] \in {"ensure", "profile", "coldstart", "action"}
  /\ call[s].status = "done"
  /\ call[s].outcome = "raise"
  /\ main' = [main EXCEPT ![s] = "crashed"]
  /\ UNCHANGED <<users, profile, wrote, active, shell, call, rt, acc, pure, page>>

InitCli ==
  /\ users \in {{}, UserIds}
  /\ profile \in {[u \in UserIds |-> p] : p \in {NoProfile, EarlierProfile}}
  /\ users = {} => profile = [u \in UserIds |-> NoProfile]
  /\ wrote = (profile # [u \in UserIds |-> NoProfile])
  /\ active = {1}
  /\ shell = [s \in Sessions |-> IF s = 1 THEN "cli" ELSE "dash"]
  /\ call = [s \in Sessions |-> NoCall]
  /\ rt = [s \in Sessions |-> NoRt]
  /\ acc = [s \in Sessions |-> NoAcc]
  /\ pure = NoPure
  /\ main = [s \in Sessions |-> IF s = 1 THEN "input" ELSE "free"]
  /\ page = NoPage

NextCli ==
  \/ \E s \in Sessions : MainNoUserId(s)
  \/ \E s \in Sessions, u \in UserIds : MainEnsureUser(s, u)
  \/ \E s \in Sessions : MainUserHasProfile(s)
  \/ \E s \in Sessions : MainColdStart(s)
  \/ \E s \in Sessions : MainMenu(s)
  \/ \E s \in Sessions, op \in MenuOps : MainChoice(s, op)
  \/ \E s \in Sessions : MainChoiceRecommend(s)
  \/ \E s \in Sessions : MainExit(s)
  \/ \E s \in Sessions : MainInvalidChoice(s)
  \/ \E s \in Sessions : MainCrash(s)
  \/ \E s \in Sessions : CliQuery(s)
  \/ \E s \in Sessions : CliCancel(s)
  \/ \E s \in Sessions, k \in 1..Cardinality(ItemIds) : CliPick(s, k)
  \/ \E s \in Sessions : CliBack(s)
  \/ \E s \in Sessions : CliInvalid(s)
  \/ \E s \in Sessions, x \in TypedRatings : CliStars(s, x)
  \/ \E s \in Sessions : Attempt(s)

SpecCli == InitCli /\ [][NextCli]_vars

\* C17: in the terminal session no failure of a remote call ends the session:
\* once a user id is accepted the session is never ended by an exception (it
\* goes on to the menu, which takes choices until the exit is chosen).
C17_NoRemoteFailureEndsSession ==
  \A s \in Sessions : main[s] # "crashed"

\* ------------------------------------------------------------------------
\* Two dashboard sessions saving the cold start of the same user
\* ------------------------------------------------------------------------

\* the picks of the two sessions: books whose authors and genres differ
RacePicks == {<<"A">>, <<"C">>}

InitTwo ==
  /\ users = UserIds
  /\ profile = [u \in UserIds |-> NoProfile]
  /\ wrote = FALSE
  /\ active = Sessions
  /\ shell = [s \in Sessions |-> "dash"]
  /\ call = [s \in Sessions |-> NoCall]
  /\ rt = [s \in Sessions |-> NoRt]
  /\ acc = [s \in Sessions |-> NoAcc]
  /\ pure = NoPure
  /\ main = [s \in Sessions |-> "free"]
  /\ page = NoPage

NextTwo ==
  \/ \E s \in Sessions, u \in UserIds, ids \in RacePicks :
       CallInitUserProfileFrom3Books(s, u, ids)
  \/ \E s \in Sessions : Attempt(s)

SpecTwo == InitTwo /\ [][NextTwo]_vars

\* the pair of lists the builder computes from the items ids
PairOf(ids) ==
  [fav_genres |-> StrList(FirstOccurrences(GenresOf(ids))),
   fav_authors |-> StrList(FirstOccurrences(AuthorsOf(ids)))]

\* the pair the builder of session s computed and sent
PairSent(s) ==
  [fav_genres |-> StrList(acc[s].fav_genres), fav_authors |-> StrList(acc[s].fav_authors)]

SavedTrue(s) == Done(s, "build") /\ call[s].ret = "True"

\* C18: with two sessions saving the cold start of the same user, the stored
\* profile is always the complete pair one save computed, never the genres of
\* one and the authors of the other; once both have returned true it is the
\* pair of one of the two; and no session is told of the other: a save that met
\* no fault returns true.
C18_LastWriteWins ==
  /\ \A u \in UserIds :
       profile[u] = NoProfile \/ \E ids \in RacePicks : profile[u] = PairOf(ids)
  /\ (\A s \in Sessions : SavedTrue(s))
     => \E s \in Sessions : profile[call[s].uid] = PairSent(s)
  /\ \A s \in Sessions :
       (Done(s, "build") /\ ~call[s].faulted)
       => call[s].outcome = "return" /\ call[s].ret = "True"

\* both sessions returned true with different pairs: the pair of session 2 was
\* overwritten by session 1
C18_Witness ==
  /\ \A s \in Sessions : SavedTrue(s) /\ ~call[s].faulted
  /\ PairSent(1) # PairSent(2)
  /\ profile[call[1].uid] = PairSent(1)
  /\ call[1].uid = call[2].uid

\* C19: in every run of send_with_retry the k-th sleep follows the failed
\* attempt i = k - 1 and lasts base_sleep * 2^i (each twice the one before), and
\* a sleep is taken only when an attempt remains after it.
C19_BackoffDoubles ==
  \A s \in Sessions :
    Dash(s) =>
      /\ Len(rt[s].sleeps) <= Len(rt[s].outs)
      /\ \A k \in 1..Len(rt[s].sleeps) :
           /\ IsTransient(rt[s].outs[k].err)
           /\ rt[s].sleeps[k] = BaseSleep * Pow2(k - 1)
           /\ k > 1 => rt[s].sleeps[k] = 2 * rt[s].sleeps[k - 1]
           /\ k < rt[s].tries

\* C20: what an item's genres add to the profile is normalize_list of that
\* value: a genres value that is one string adds that string, a nested list
\* adds its elements one by one (each trimmed, the empty ones left out).
C20_GenresNormalizedPerItem ==
  /\ pure.fn = "accumulate"
     => pure.res = FirstByLower(Trimmed(ElementsMet(pure.arg)))
  /\ pure.fn = "app_accumulate"
     => /\ ~pure.raised
        /\ {pure.res[i] : i \in 1..Len(pure.res)}
             = {Trimmed(ElementsMet(pure.arg))[i] :
                  i \in 1..Len(Trimmed(ElementsMet(pure.arg)))}


\* ------------------------------------------------------------------------
\* The dashboard page: streamlit_app.py, lines 266-505
\* ------------------------------------------------------------------------
\* Streamlit runs the script from top to bottom on every gesture of the user.
\* st.session_state outlives the runs. st.button returns True in the run that
\* its click started, whatever `disabled` that run passes to it, and only if
\* that run reaches the st.button call. The user sees, and clicks, the buttons
\* as the last run rendered them: a run that changes st.session_state below a
\* button leaves on the page the button computed from the state above it.

Gestures == {"load", "search", "blank_search", "select", "add", "reset", "save", "rate"}

\* the widgets the page offers after the last run: the sidebar always, the tabs
\* when the run passed st.stop() and ensure_user, each button as rendered
Offered(p, g) ==
  CASE g = "load" -> TRUE
    [] g \in {"search", "blank_search", "rate"} -> p.shown
    [] g = "select" -> p.shown /\ p.results # <<>>
    [] g = "add" -> p.shown /\ p.add_on
    [] g = "reset" -> p.shown /\ p.reset_on
    [] g = "save" -> p.shown /\ p.save_on

OnPage(s, where) ==
  /\ s \in active
  /\ shell[s] = "dash"
  /\ page.pc = where
  /\ call[s].status # "running"

\* the run is over: its last call is forgotten, the history of the session kept
EndRun(s) ==
  /\ call' = [call EXCEPT ![s] = [NoCall EXCEPT !.uid = page.uid,
                                                !.first = call[s].first]]
  /\ rt' = [rt EXCEPT ![s] = NoRt]
  /\ acc' = [acc EXCEPT ![s] = NoAcc]

\* lines 280-298: a gesture starts a run; the script reaches ensure_user(user_id).
\* u is the user id in the sidebar (typed by "load"), k the option selected in
\* the selectbox of line 357 (changed by "select")
PageRun(s, g, u, k) ==
  /\ OnPage(s, "idle")
  /\ Offered(page, g)
  /\ IF g = "load" THEN u \in UserIds ELSE u = page.uid
  /\ IF g = "select" THEN k \in {page.results[j] : j \in 1..Len(page.results)}
                     ELSE k = page.sel
  /\ page' = [page EXCEPT !.pc = "ensure", !.gesture = g, !.uid = u, !.sel = k,
                          !.picks0 = page.picks, !.results0 = page.results,
                          !.ok = "none"]
  /\ Enter(s, "ensure_user", u, Begin(AddUser(u), DefaultTries), NoAcc)
  /\ UNCHANGED <<users, profile, wrote, active, shell, pure, main>>

\* lines 280-294: the user id box is emptied; st.stop() ends the run before any
\* request, only the sidebar and the hint are on the page
PageNoUserId(s) ==
  /\ OnPage(s, "idle")
  /\ page' = [page EXCEPT !.gesture = "load", !.uid = "", !.shown = FALSE,
                          !.add_on = FALSE, !.reset_on = FALSE, !.save_on = FALSE,
                          !.picks0 = page.picks, !.results0 = page.results,
                          !.ok = "none"]
  /\ UNCHANGED <<users, profile, wrote, active, shell, call, rt, acc, pure, main>>

\* line 298: ensure_user raised (nothing catches it): the run ends there, the
\* page shows the exception and none of the tabs
PageAbort(s) ==
  /\ OnPage(s, "ensure")
  /\ call[s].outcome = "raise"
  /\ page' = [page EXCEPT !.pc = "idle", !.shown = FALSE,
                          !.add_on = FALSE, !.reset_on = FALSE, !.save_on = FALSE]
  /\ EndRun(s)
  /\ UNCHANGED <<users, profile, wrote, active, shell, pure, main>>

\* lines 298-301: ensure_user returned, needs_profile = not user_has_profile(..)
PageNeedsProfile(s) ==
  /\ OnPage(s, "ensure")
  /\ Returned(s)
  /\ page' = [page EXCEPT !.pc = "profile"]
  /\ Enter(s, "user_has_profile", page.uid, Begin(GetUserValues(page.uid), DefaultTries),
           NoAcc)
  /\ UNCHANGED <<users, profile, wrote, active, shell, pure, main>>

\* lines 301-314: whatever the first lookup did (except Exception), the
\* cold-start tab calls user_has_profile again
PageHasProfile(s) ==
  /\ OnPage(s, "profile")
  /\ page' = [page EXCEPT !.pc = "tab_profile"]
  /\ Enter(s, "user_has_profile", page.uid, Begin(GetUserValues(page.uid), DefaultTries),
           NoAcc)
  /\ UNCHANGED <<users, profile, wrote, active, shell, pure, main>>

\* lines 319-322: has_profile, display_user_profile_summary reads the user
PageSummary(s) ==
  /\ OnPage(s, "tab_profile")
  /\ Returned(s)
  /\ call[s].ret = "True"
  /\ page' = [page EXCEPT !.pc = "summary"]
  /\ Enter(s, "send", page.uid, Begin(GetUserValues(page.uid), DefaultTries), NoAcc)
  /\ UNCHANGED <<users, profile, wrote, active, shell, pure, main>>

\* lines 351-385, the cold-start tab from the selectbox to the save button: the
\* option shown (the first one when the one selected is not offered), `already`
\* and `full`, the add button and its handler, the reset button and its handler
\* (rendered only when something is picked), the save button as rendered
cold_tab(p) ==
  LET shownSel == IF p.results = <<>> THEN ""
                  ELSE IF \E j \in 1..Len(p.results) : p.results[j] = p.sel
                       THEN p.sel ELSE p.results[1]
      already == \E j \in 1..Len(p.picks) : p.picks[j] = shownSel
      full    == Len(p.picks) >= MaxPicks
      added   == IF p.results # <<>> /\ p.gesture = "add"
                 THEN Append(p.picks, shownSel) ELSE p.picks
      kept    == IF added # <<>> /\ p.gesture = "reset" THEN <<>> ELSE added
  IN  [p EXCEPT !.sel = shownSel,
                !.picks = kept,
                !.add_on = (p.results # <<>> /\ ~(already \/ full)),
                !.reset_on = (added # <<>>),
                !.save_on = (kept # <<>>)]

\* the run reached the end of the script
Rendered(p) == [p EXCEPT !.pc = "idle", !.shown = TRUE]

\* lines 351-459 with cold_results as the search left them: the rest of the
\* cold-start tab, then the builder when the save button was clicked, the
\* rating request when the rating button was, the end of the script otherwise
TabsFrom(s, p) ==
  LET q == cold_tab(p)
  IN  CASE p.gesture = "save" ->
             /\ page' = [q EXCEPT !.pc = "save"]
             /\ IF q.picks = <<>>
                THEN Becomes(s, Finish(StartCall(s, "build", q.uid), NoRt,
                                       [NoAcc EXCEPT !.phase = "fetch", !.idx = 1]))
                ELSE Enter(s, "build", q.uid,
                           Begin(GetItemValues(q.picks[1]), DefaultTries),
                           [NoAcc EXCEPT !.phase = "fetch", !.items = q.picks,
                                         !.idx = 1])
        [] p.gesture = "rate" ->
             /\ page' = [q EXCEPT !.pc = "rate"]
             /\ \E i \in RatedItems, h \in SliderValues :
                  Enter(s, "rate_item", q.uid, Begin(rate_item(q.uid, i, h), DefaultTries),
                        [NoAcc EXCEPT !.stars = h])
        [] OTHER ->
             /\ page' = Rendered(q)
             /\ EndRun(s)

\* lines 315-349: the second lookup and the summary are over (their failures
\* are caught); the search button sends SearchItems, a blank query empties
\* cold_results, any other gesture goes on to the selectbox
PageColdTab(s) ==
  /\ \/ OnPage(s, "tab_profile") /\ ~(Returned(s) /\ call[s].ret = "True")
     \/ OnPage(s, "summary")
  /\ IF page.gesture = "search"
     THEN /\ page' = [page EXCEPT !.pc = "search"]
          /\ Enter(s, "send", page.uid, Begin(SearchItems(page.uid, TRUE), DefaultTries),
                   NoAcc)
     ELSE TabsFrom(s, [page EXCEPT !.results = IF page.gesture = "blank_search"
                                               THEN <<>> ELSE @])
  /\ UNCHANGED <<users, profile, wrote, active, shell, pure, main>>

\* lines 344-349: search_items returned its list, or raised and left none
PageSearched(s) ==
  /\ OnPage(s, "search")
  /\ TabsFrom(s, [page EXCEPT !.results = IF Returned(s) THEN rt[s].resp.recomms
                                          ELSE <<>>])
  /\ UNCHANGED <<users, profile, wrote, active, shell, pure, main>>

\* variant of save_handler that empties the two lists whatever the builder did
save_handler_always_clears(p, c) ==
  [p EXCEPT !.ok = IF c.outcome = "raise" THEN "raise" ELSE c.ret,
            !.picks = <<>>,
            !.results = <<>>]

\* lines 386-395: what the save button's handler does once the builder ended
save_handler(p, c) ==
  LET ok == c.outcome = "return" /\ c.ret = "True"
  IN  [p EXCEPT !.ok = IF c.outcome = "raise" THEN "raise" ELSE c.ret,
                !.picks = IF ok THEN <<>> ELSE @,
                !.results = IF ok THEN <<>> ELSE @]

\* lines 386-505: the builder ended, the handler, then the rest of the script
PageSaved(s) ==
  /\ OnPage(s, "save")
  /\ page' = Rendered(save_handler(page, call[s]))
  /\ EndRun(s)
  /\ UNCHANGED <<users, profile, wrote, active, shell, pure, main>>

\* lines 453-505: the rating was sent or failed (caught), the rest of the script
PageRated(s) ==
  /\ OnPage(s, "rate")
  /\ page' = Rendered(page)
  /\ EndRun(s)
  /\ UNCHANGED <<users, profile, wrote, active, shell, pure, main>>

\* the browser opens the dashboard: no user yet, or one with or without a
\* profile from earlier
InitDash ==
  /\ users \in {{}, UserIds}
  /\ profile \in {[u \in UserIds |-> p] : p \in {NoProfile, EarlierProfile}}
  /\ users = {} => profile = [u \in UserIds |-> NoProfile]
  /\ wrote = (profile # [u \in UserIds |-> NoProfile])
  /\ active = {1}
  /\ shell = [s \in Sessions |-> "dash"]
  /\ call = [s \in Sessions |-> NoCall]
  /\ rt = [s \in Sessions |-> NoRt]
  /\ acc = [s \in Sessions |-> NoAcc]
  /\ pure = NoPure
  /\ main = [s \in Sessions |-> "free"]
  /\ page = NoPage

NextDash ==
  \/ \E s \in Sessions, g \in Gestures, u \in UserIds, k \in ItemIds \cup {""} :
       PageRun(s, g, u, k)
  \/ \E s \in Sessions : PageNoUserId(s)
  \/ \E s \in Sessions : PageAbort(s)
  \/ \E s \in Sessions : PageNeedsProfile(s)
  \/ \E s \in Sessions : PageHasProfile(s)
  \/ \E s \in Sessions : PageSummary(s)
  \/ \E s \in Sessions : PageColdTab(s)
  \/ \E s \in Sessions : PageSearched(s)
  \/ \E s \in Sessions : PageSaved(s)
  \/ \E s \in Sessions : PageRated(s)
  \/ \E s \in Sessions : Attempt(s)

SpecDash == InitDash /\ [][NextDash]_vars

\* C21: in the dashboard, whatever the gestures, the picked list holds at most
\* MaxPicks ids and no id twice.
C21_PicksBounded ==
  /\ Len(page.picks) <= MaxPicks
  /\ \A j, k \in 1..Len(page.picks) : page.picks[j] = page.picks[k] => j = k


\* the stored profile holds a favourite genre or author
Established(p) == Truthy(p.fav_genres) \/ Truthy(p.fav_authors)

\* C22: in the terminal session the cold-start dialogue begins exactly when
\* user_has_profile has returned False at startup (True leads to the menu); a
\* user whose stored profile is established never reaches the dialogue, and
\* SetUserValues is sent from nowhere else in the session.
C22_ColdStartIffNoProfile ==
  /\ [](\A s \in Sessions :
          /\ main[s] = "coldstart" => ~Established(call[s].profile0[call[s].uid])
          /\ (main[s] \notin {"free", "coldstart"}) => rt[s].req.kind # "SetUserValues")
  /\ [][\A s \in Sessions :
          /\ (main[s] # "coldstart" /\ main'[s] = "coldstart")
               => (/\ main[s] = "profile"
                   /\ Done(s, "user_has_profile")
                   /\ Returned(s)
                   /\ call[s].ret = "False")
          /\ (main[s] = "profile" /\ Returned(s) /\ main'[s] # "profile")
               => /\ call[s].ret = "False" => main'[s] = "coldstart"
                  /\ call[s].ret = "True" => main'[s] = "menu"]_vars

\* C22, the case met: the dialogue ran for a user without profile and wrote one
C22_Witness ==
  \E s \in Sessions :
    /\ main[s] = "coldstart"
    /\ Returned(s)
    /\ "SetUserValues" \in call[s].sent
    /\ Established(profile[call[s].uid])


\* every attempt of a request ends: client.send returns or raises within the
\* client's timeout, so a pending send_with_retry always gets its next outcome
SpecFair == Spec /\ \A s \in Sessions : WF_vars(Attempt(s))

\* C23: send_with_retry called with tries >= 1 never sends more than tries
\* times, has sent at least once when it ends, and always ends (returns or
\* raises), whatever the outcomes of its attempts.
C23_SendsBetweenOneAndTries ==
  /\ [](\A s \in Sessions :
          (Dash(s) /\ rt[s].tries >= 1)
            => /\ rt[s].rx <= rt[s].tries
               /\ rt[s].rx = Len(rt[s].outs)
               /\ rt[s].st \in {"returned", "raised"} => rt[s].rx >= 1)
  /\ \A s \in Sessions :
       (Dash(s) /\ rt[s].st = "pending") ~> (rt[s].st \in {"returned", "raised"})

\* C23, the case met: the last of several allowed attempts succeeded after
\* transient errors
C23_Witness ==
  \E s \in Sessions :
    /\ Dash(s)
    /\ Done(s, "send")
    /\ rt[s].tries > 1
    /\ rt[s].st = "returned"
    /\ rt[s].rx = rt[s].tries


\* C24: the dashboard's ensure_user for a user that did not exist, whose first
\* AddUser timed out although the service created the user: when the second
\* attempt is answered, the answer is 409, ensure_user returns normally without
\* a warning, and the users are those from before plus this one.
C24_TimedOutCreateIsAbsorbed ==
  [][\A s \in Sessions :
       (/\ Dash(s)
        /\ call[s].op = "ensure_user"
        /\ call[s].status = "running"
        /\ rt[s].rx = 1
        /\ rt[s].outs[1].err = ApiTimeout
        /\ call[s].uid \notin call[s].users0
        /\ call[s].uid \in users
        /\ rt'[s].rx = 2
        /\ ~rt'[s].outs[2].fault)
       => /\ rt'[s].req = rt[s].req
          /\ rt'[s].outs[2].err = ResponseException(409)
          /\ call'[s].status = "done"
          /\ call'[s].outcome = "return"
          /\ ~call'[s].reported
          /\ users' = call[s].users0 \cup {call[s].uid}]_vars

\* C24, the case met: timeout on a created user, then 409, then a normal return
C24_Witness ==
  \E s \in Sessions :
    /\ Dash(s)
    /\ Done(s, "ensure_user")
    /\ call[s].uid \notin call[s].users0
    /\ rt[s].rx = 2
    /\ rt[s].outs[1].err = ApiTimeout
    /\ rt[s].outs[2].err = ResponseException(409)
    /\ call[s].outcome = "return"
    /\ call[s].uid \in users


\* C25: in the dashboard, user_has_profile called for a user right after the
\* builder returned True for that user, both answered by the service with no
\* failure, returns True.
C25_SavedProfileIsRecognised ==
  \A s \in Sessions :
    (/\ Dash(s)
     /\ Done(s, "user_has_profile")
     /\ call[s].follows = "build"
     /\ call[s].followsRet = "True"
     /\ ~call[s].faulted)
    => /\ call[s].outcome = "return"
       /\ call[s].ret = "True"

\* C25, the case met: the lookup after a successful save has returned True
C25_Witness ==
  \E s \in Sessions :
    /\ Dash(s)
    /\ Done(s, "user_has_profile")
    /\ call[s].follows = "build"
    /\ call[s].followsRet = "True"
    /\ ~call[s].faulted
    /\ call[s].ret = "True"


\* a session of either shell: the terminal's main() or the dashboard's page
InitShells == InitCli \/ InitDash

NextShells == NextCli \/ NextDash

SpecShells == InitShells /\ [][NextShells]_vars

\* C26: in a session of either shell, the first request sent that names the
\* user id is AddUser: no lookup, search, view, rating, recommendation or
\* profile write for that id is pending or sent before it.
C26_CreateUserFirst ==
  \A s \in Sessions :
    /\ call[s].first \in {"none", "AddUser"}
    /\ (/\ InSession(s)
        /\ rt[s].req.kind \notin {"none", "AddUser"}
        /\ rt[s].req.user = call[s].uid)
       => call[s].first = "AddUser"

\* C26, the case met: a profile write was sent in a session that began with
\* AddUser
C26_Witness ==
  \E s \in Sessions :
    /\ InSession(s)
    /\ call[s].first = "AddUser"
    /\ rt[s].req.kind = "SetUserValues"
    /\ rt[s].req.user = call[s].uid
    /\ rt[s].rx >= 1


\* C27: when a run started by the save button is over, the picked list and the
\* cold-start results are empty if the builder returned True, and otherwise
\* (it returned False, it raised, or the run ended before reaching it) both are
\* what they were when the button was clicked.
C27_SaveClearsOnlyOnTrue ==
  (page.pc = "idle" /\ page.gesture = "save")
  => IF page.ok = "True"
     THEN page.picks = <<>> /\ page.results = <<>>
     ELSE page.picks = page.picks0 /\ page.results = page.results0

\* C27, the case met: a save of picked books returned False or raised and the
\* picks are still there
C27_Witness ==
  /\ page.pc = "idle"
  /\ page.gesture = "save"
  /\ page.ok \in {"False", "raise"}
  /\ page.picks0 # <<>>
  /\ page.picks = page.picks0

====
